---------------------------- MODULE Spec2Model ----------------------------
(***************************************************************************)
(* Model of autoparts.py: the pipeline of plan_and_write_single            *)
(* (extract_top_level_items -> build_components -> repack_components ->    *)
(* module-name collision guard -> render_module / render_init /            *)
(* render_main) and the pure naming helpers (to_snake,                     *)
(* module_name_for_component, ensure_unique_module_name).                  *)
(*                                                                         *)
(* Strings are sequences of one-character strings, so that the character   *)
(* level work of to_snake is computed and not assumed.                     *)
(***************************************************************************)
EXTENDS Integers, Sequences, FiniteSets, TLC

\* a sequence given by a rule, as the list of its elements
AsList(seq) == seq \o <<>>

(***************************************************************************)
(* Characters: the printable ASCII range, code 32 .. 126.  The grave       *)
(* accent (code 96) cannot be written in a TLA+ string; its place in the   *)
(* table is held by the word "grave", which no input contains.             *)
(***************************************************************************)
Ascii ==
  <<
    " ", "!", "\"", "#", "$", "%", "&", "'", "(", ")", "*", "+", ",", "-", ".", "/",
    "0", "1", "2", "3", "4", "5", "6", "7", "8", "9", ":", ";", "<", "=", ">", "?",
    "@", "A", "B", "C", "D", "E", "F", "G", "H", "I", "J", "K", "L", "M", "N", "O",
    "P", "Q", "R", "S", "T", "U", "V", "W", "X", "Y", "Z", "[", "\\", "]", "^", "_",
    "grave", "a", "b", "c", "d", "e", "f", "g", "h", "i", "j", "k", "l", "m", "n", "o",
    "p", "q", "r", "s", "t", "u", "v", "w", "x", "y", "z", "{", "|", "}", "~"
  >>

Chr(n) == Ascii[n - 31]

CodeOf == [c \in {Ascii[i] : i \in 1..Len(Ascii)} |->
             CHOOSE n \in 32..126 : Ascii[n - 31] = c]

\* ord(c); tab and newline are the two characters below the printable range
Code(c) == IF c = "\t" THEN 9 ELSE IF c = "\n" THEN 10 ELSE CodeOf[c]

IsLowerCh(c) == Code(c) \in 97..122
IsUpperCh(c) == Code(c) \in 65..90
IsDigitCh(c) == Code(c) \in 48..57

\* the complement of the class of _identifier_re: [0-9a-zA-Z_]
IsIdentCh(c) == IsLowerCh(c) \/ IsUpperCh(c) \/ IsDigitCh(c) \/ c = "_"

LowerCh(c) == IF IsUpperCh(c) THEN Chr(Code(c) + 32) ELSE c

\* str.lower()
Lower(s) == [i \in 1..Len(s) |-> LowerCh(s[i])]

\* str.replace(old, new) for one-character old and new
ReplaceCh(s, old, new) == [i \in 1..Len(s) |-> IF s[i] = old THEN new ELSE s[i]]

RECURSIVE LStrip(_, _)
LStrip(s, chars) ==
  IF s # <<>> /\ s[1] \in chars THEN LStrip(Tail(s), chars) ELSE s

RECURSIVE RStrip(_, _)
RStrip(s, chars) ==
  IF s # <<>> /\ s[Len(s)] \in chars
    THEN RStrip(SubSeq(s, 1, Len(s) - 1), chars)
    ELSE s

\* str.strip(chars)
Strip(s, chars) == RStrip(LStrip(s, chars), chars)

\* the characters str.strip() removes when called without argument
Whitespace == {" ", "\t", "\n"}

\* re.sub("([a-z0-9])([A-Z])", r"\1_\2", name): leftmost non-overlapping matches
RECURSIVE CamelScan(_, _, _)
CamelScan(s, i, acc) ==
  IF i > Len(s) THEN acc
  ELSE IF i < Len(s) /\ (IsLowerCh(s[i]) \/ IsDigitCh(s[i])) /\ IsUpperCh(s[i + 1])
    THEN CamelScan(s, i + 2, acc \o <<s[i], "_", s[i + 1]>>)
    ELSE CamelScan(s, i + 1, Append(acc, s[i]))

CamelSub(s) == CamelScan(s, 1, <<>>)

\* _identifier_re.sub("_", name): every maximal run outside [0-9a-zA-Z_] becomes one "_"
RECURSIVE IdentScan(_, _, _)
IdentScan(s, i, acc) ==
  IF i > Len(s) THEN acc
  ELSE IF IsIdentCh(s[i]) THEN IdentScan(s, i + 1, Append(acc, s[i]))
  ELSE IF i > 1 /\ ~IsIdentCh(s[i - 1]) THEN IdentScan(s, i + 1, acc)
  ELSE IdentScan(s, i + 1, Append(acc, "_"))

IdentSub(s) == IdentScan(s, 1, <<>>)

\* keyword.kwlist
kwlist ==
  {
    <<"F", "a", "l", "s", "e">>, <<"N", "o", "n", "e">>, <<"T", "r", "u", "e">>,
    <<"a", "n", "d">>, <<"a", "s">>, <<"a", "s", "s", "e", "r", "t">>,
    <<"a", "s", "y", "n", "c">>, <<"a", "w", "a", "i", "t">>, <<"b", "r", "e", "a", "k">>,
    <<"c", "l", "a", "s", "s">>, <<"c", "o", "n", "t", "i", "n", "u", "e">>, <<"d", "e", "f">>,
    <<"d", "e", "l">>, <<"e", "l", "i", "f">>, <<"e", "l", "s", "e">>,
    <<"e", "x", "c", "e", "p", "t">>, <<"f", "i", "n", "a", "l", "l", "y">>, <<"f", "o", "r">>,
    <<"f", "r", "o", "m">>, <<"g", "l", "o", "b", "a", "l">>, <<"i", "f">>,
    <<"i", "m", "p", "o", "r", "t">>, <<"i", "n">>, <<"i", "s">>,
    <<"l", "a", "m", "b", "d", "a">>, <<"n", "o", "n", "l", "o", "c", "a", "l">>, <<"n", "o", "t">>,
    <<"o", "r">>, <<"p", "a", "s", "s">>, <<"r", "a", "i", "s", "e">>,
    <<"r", "e", "t", "u", "r", "n">>, <<"t", "r", "y">>, <<"w", "h", "i", "l", "e">>,
    <<"w", "i", "t", "h">>, <<"y", "i", "e", "l", "d">>
  }

iskeyword(s) == s \in kwlist

StrModule    == <<"m", "o", "d", "u", "l", "e">>
StrConstants == <<"c", "o", "n", "s", "t", "a", "n", "t", "s">>
StrCore      == <<"c", "o", "r", "e">>

\* name or "module"
OrModule(n) == IF n = <<>> THEN StrModule ELSE n

\* if name[0].isdigit(): name = "m_" + name
PrefixDigit(n) == IF IsDigitCh(n[1]) THEN <<"m", "_">> \o n ELSE n

\* if keyword.iskeyword(name): name = "mod_" + name
PrefixKeyword(n) == IF iskeyword(n) THEN <<"m", "o", "d", "_">> \o n ELSE n

\* to_snake with the underscores stripped before the separator substitution
to_snake_strip_first(name) ==
  PrefixKeyword(PrefixDigit(OrModule(
    Lower(IdentSub(Strip(CamelSub(ReplaceCh(Strip(name, Whitespace), "-", "_")), {"_"}))))))

to_snake(name) ==
  PrefixKeyword(PrefixDigit(OrModule(
    Strip(Lower(IdentSub(CamelSub(ReplaceCh(Strip(name, Whitespace), "-", "_")))), {"_"}))))

\* str(i) for a non-negative integer
RECURSIVE IntToStr(_)
IntToStr(i) ==
  IF i < 10 THEN <<Chr(48 + i)>> ELSE Append(IntToStr(i \div 10), Chr(48 + (i % 10)))

\* f"{base}_{i}"
Suffixed(base, i) == base \o <<"_">> \o IntToStr(i)

RECURSIVE FirstFreeSuffix(_, _, _)
FirstFreeSuffix(base, used, i) ==
  IF Suffixed(base, i) \in used THEN FirstFreeSuffix(base, used, i + 1) ELSE i

\* a guard that tries the suffix 2 only
ensure_unique_module_name_suffix_two(base, used) ==
  IF base \notin used THEN base ELSE Suffixed(base, 2)

\* ensure_unique_module_name: the returned name; the caller adds it to `used`
ensure_unique_module_name(base, used) ==
  IF base \notin used THEN base ELSE Suffixed(base, FirstFreeSuffix(base, used, 2))

RECURSIVE JoinExtras(_, _)
JoinExtras(base, extras) ==
  IF extras = <<>> THEN base
  ELSE JoinExtras(IF Len(base) < 20 THEN base \o <<"_">> \o Head(extras) ELSE base,
                  Tail(extras))

\* parts[1:3]
Extras(parts) == SubSeq(parts, 2, IF Len(parts) < 3 THEN Len(parts) ELSE 3)

\* base = parts[0] if parts else "module", then the extras joined
JoinParts(parts) == JoinExtras(IF parts # <<>> THEN Head(parts) ELSE StrModule, Extras(parts))

\* if len(base) > 40: base = base[:40].rstrip("_")
Truncate(base) == IF Len(base) > 40 THEN RStrip(SubSeq(base, 1, 40), {"_"}) ELSE base

\* [to_snake(n) for n in names if n]
SnakeParts(nonempty) == AsList([i \in 1..Len(nonempty) |-> to_snake(nonempty[i])])

\* module_name_for_component(names)
module_name_for_component(names) ==
  OrModule(Truncate(JoinParts(SnakeParts(SelectSeq(names, LAMBDA n : n # <<>>)))))

(***************************************************************************)
(* Generic helpers standing for Python built-ins.                          *)
(***************************************************************************)
\* the code points of a string
CodePoints(s) == AsList([i \in 1..Len(s) |-> Code(s[i])])

\* < on sort keys, which are sequences of integers: lexicographic
KeyLess(a, b) ==
  \/ Len(a) < Len(b) /\ SubSeq(b, 1, Len(a)) = a
  \/ \E k \in 1..Len(a) :
       /\ k <= Len(b)
       /\ SubSeq(a, 1, k - 1) = SubSeq(b, 1, k - 1)
       /\ a[k] < b[k]

\* str < str: lexicographic by code point
StrLess(a, b) == KeyLess(CodePoints(a), CodePoints(b))

\* the position list.sort gives each element: one more than the number of
\* elements with a smaller key, or an equal key and an earlier position
SortRanks(keys) ==
  AsList([i \in 1..Len(keys) |->
            1 + Cardinality({j \in 1..Len(keys) :
                               \/ KeyLess(keys[j], keys[i])
                               \/ keys[j] = keys[i] /\ j < i})])

\* the list with element i moved to position rank[i]
Reorder(seq, rank) ==
  AsList([r \in 1..Len(seq) |-> seq[CHOOSE i \in 1..Len(seq) : rank[i] = r]])

\* list.sort(key=...): stable; keys[i] is the key of seq[i]
StableSort(seq, keys) == Reorder(seq, SortRanks(AsList(keys)))

Range(seq) == {seq[i] : i \in 1..Len(seq)}

RECURSIVE SumSeq(_)
SumSeq(seq) == IF seq = <<>> THEN 0 ELSE Head(seq) + SumSeq(Tail(seq))

RECURSIVE Flatten(_)
Flatten(seqs) == IF seqs = <<>> THEN <<>> ELSE Head(seqs) \o Flatten(Tail(seqs))

\* all orders in which the elements of a set can be iterated
Orders(S) == {q \in [1..Cardinality(S) -> S] : \A i, j \in 1..Cardinality(S) : q[i] = q[j] => i = j}

\* Optional[T]: None is the empty sequence, a value v is <<v>>
None == <<>>
Some(v) == <<v>>
ValueOf(opt) == opt[1]

(***************************************************************************)
(* State.                                                                  *)
(*   stmts      the top-level statements of the parsed source (tree.body   *)
(*              without imports): kind, assignment targets or the defined  *)
(*              name, line count of the source segment, the names read     *)
(*              (ast.Name in Load context) that the visitor reaches         *)
(*   main_block whether the source has an  if __name__ == ...  block       *)
(*   cfg        the packing options passed to plan_and_write_single        *)
(*   pc         position inside plan_and_write_single / repack_components  *)
(*   items      List[TopLevelItem]; node is the index of the statement     *)
(*   comps      List[Component]                                            *)
(*   name_to_module  Dict[str, str] as a function                          *)
(*   written    the artifacts handed to write_text                         *)
(*   merges     number of merge_components results installed by the loops  *)
(*              of steps 3, 3.5 and 4 of repack_components                 *)
(* and, for the functions that are run on their own, argument and result:  *)
(*   snake_in, snake_out        to_snake                                   *)
(*   all_imports, import_lines  _dedup_imports as render_module calls it   *)
(*   scc_graph, scc_components  strongly_connected_components              *)
(*   visit_node, visit_used     DependencyVisitor                          *)
(***************************************************************************)
VARIABLES stmts, main_block, cfg, pc, items, comps, name_to_module, written, merges,
          snake_in, snake_out, all_imports, import_lines, scc_graph, scc_components,
          visit_node, visit_used

vars == <<stmts, main_block, cfg, pc, items, comps, name_to_module, written, merges,
          snake_in, snake_out, all_imports, import_lines, scc_graph, scc_components,
          visit_node, visit_used>>

snakeVars == <<snake_in, snake_out>>

importVars == <<all_imports, import_lines>>

sccVars == <<scc_graph, scc_components>>

visitVars == <<visit_node, visit_used>>

\* the variables plan_and_write_single leaves alone
pureVars == <<snakeVars, importVars, sccVars, visitVars>>

pipeVars == <<stmts, main_block, cfg, pc, items, comps, name_to_module, written, merges>>

(***************************************************************************)
(* extract_top_level_items                                                 *)
(***************************************************************************)
\* the items one statement contributes (lines 308-319), deps still empty
StmtItems(k) ==
  [i \in 1..Len(stmts[k].targets) |->
     [name |-> stmts[k].targets[i], kind |-> stmts[k].kind, node |-> k,
      lines |-> stmts[k].lines, deps |-> {}]]

\* lines 323-329: name_set, DependencyVisitor result minus the item's own name
WithDeps(its) ==
  LET name_set == {its[i].name : i \in 1..Len(its)}
  IN  [i \in 1..Len(its) |->
         [its[i] EXCEPT !.deps = (stmts[its[i].node].used \cap name_set) \ {its[i].name}]]

extract_top_level_items == AsList(WithDeps(Flatten([k \in 1..Len(stmts) |-> StmtItems(k)])))

(***************************************************************************)
(* strongly_connected_components (Tarjan, recursive as in the source).     *)
(* adj[v] is the order in which  for w in graph.get(v, set())  yields the  *)
(* elements of the set; keys is the order of  for v in graph.              *)
(***************************************************************************)
Min(a, b) == IF a < b THEN a ELSE b

RECURSIVE PopUntil(_, _, _)
\* lines 369-374: pop the stack down to and including v
PopUntil(st, v, comp) ==
  LET w  == st.stack[Len(st.stack)]
      s1 == [st EXCEPT !.stack = SubSeq(st.stack, 1, Len(st.stack) - 1),
                       !.onstack = st.onstack \ {w}]
  IN  IF w = v
        THEN [s1 EXCEPT !.components = Append(s1.components, Append(comp, w))]
        ELSE PopUntil(s1, v, Append(comp, w))

RECURSIVE strongconnect(_, _, _)
RECURSIVE VisitEdges(_, _, _, _)
RECURSIVE VisitEdges_any_visited(_, _, _, _)

\* the loop with  elif w in onstack  replaced by  else
VisitEdges_any_visited(v, ws, st, adj) ==
  IF ws = <<>> THEN st
  ELSE LET w == Head(ws)
           s1 == IF w \notin DOMAIN st.indices
                   THEN LET r == strongconnect(w, st, adj)
                        IN  [r EXCEPT !.lowlink[v] = Min(r.lowlink[v], r.lowlink[w])]
                 ELSE [st EXCEPT !.lowlink[v] = Min(st.lowlink[v], st.indices[w])]
       IN  VisitEdges_any_visited(v, Tail(ws), s1, adj)

\* lines 360-365: the loop over the successors of v
VisitEdges(v, ws, st, adj) ==
  IF ws = <<>> THEN st
  ELSE LET w == Head(ws)
           s1 == IF w \notin DOMAIN st.indices
                   THEN LET r == strongconnect(w, st, adj)
                        IN  [r EXCEPT !.lowlink[v] = Min(r.lowlink[v], r.lowlink[w])]
                 ELSE IF w \in st.onstack
                   THEN [st EXCEPT !.lowlink[v] = Min(st.lowlink[v], st.indices[w])]
                 ELSE st
       IN  VisitEdges(v, Tail(ws), s1, adj)

\* lines 352-375
strongconnect(v, st, adj) ==
  LET s1 == [index      |-> st.index + 1,
             indices    |-> (v :> st.index) @@ st.indices,
             lowlink    |-> (v :> st.index) @@ st.lowlink,
             stack      |-> Append(st.stack, v),
             onstack    |-> st.onstack \cup {v},
             components |-> st.components]
      s2 == VisitEdges(v, adj[v], s1, adj)
  IN  IF s2.lowlink[v] = s2.indices[v] THEN PopUntil(s2, v, <<>>) ELSE s2

RECURSIVE SccLoop(_, _, _)
\* lines 377-379
SccLoop(keys, st, adj) ==
  IF keys = <<>> THEN st
  ELSE SccLoop(Tail(keys),
               IF Head(keys) \notin DOMAIN st.indices
                 THEN strongconnect(Head(keys), st, adj) ELSE st,
               adj)

\* every symbol a component of its own
singleton_components(keys, adj) == [i \in 1..Len(keys) |-> <<keys[i]>>]

strongly_connected_components(keys, adj) ==
  SccLoop(keys,
          [index |-> 0, indices |-> <<>>, lowlink |-> <<>>, stack |-> <<>>,
           onstack |-> {}, components |-> <<>>],
          adj).components

(***************************************************************************)
(* build_components                                                        *)
(***************************************************************************)
\* item_by_name = {it.name: it for it in items}: the last item of a name wins
item_by_name(its, n) ==
  its[CHOOSE i \in 1..Len(its) :
        its[i].name = n /\ \A j \in (i + 1)..Len(its) : its[j].name # n]

\* graph = {it.name: set(it.deps) for it in items}
graph(its, n) == item_by_name(its, n).deps

\* the keys of a dict built from items, in insertion order (first occurrence)
DictKeys(its) ==
  LET firsts == SelectSeq([i \in 1..Len(its) |-> i],
                  LAMBDA i : \A j \in 1..(i - 1) : its[j].name # its[i].name)
  IN  [k \in 1..Len(firsts) |-> its[firsts[k]].name]

ItemNames(seq) == AsList([i \in 1..Len(seq) |-> seq[i].name])

\* key=lambda x: x.name.lower(), for each element of a list of items
LowerNameKeys(its) == [i \in 1..Len(its) |-> CodePoints(Lower(its[i].name))]

\* [item_by_name[n] for n in comp_names]
ItemsOf(its, comp_names) ==
  AsList([i \in 1..Len(comp_names) |-> item_by_name(its, comp_names[i])])

\* lines 402-403: the items of a component, sorted
SortedItems(unsorted) == StableSort(unsorted, LowerNameKeys(unsorted))

\* lines 401-407: one Component per SCC
MakeComponent(its, comp_names) ==
  LET comp_items == SortedItems(ItemsOf(its, comp_names))
  IN  [names |-> ItemNames(comp_items), items |-> comp_items,
       module_name |-> module_name_for_component(ItemNames(comp_items))]

\* lines 412-417; graph[n] is the dependency set of the component's own item n
external_dep_count(c) ==
  LET s == Range(c.names)
      deps == UNION {c.items[i].deps : i \in 1..Len(c.items)}
  IN  Cardinality(deps \ s)

\* the component list of build_components for one iteration order of the sets
build_components(its, adj) ==
  LET sccs == strongly_connected_components(DictKeys(its), adj)
      unsorted == AsList([k \in 1..Len(sccs) |-> MakeComponent(its, sccs[k])])
  IN  StableSort(unsorted, [k \in 1..Len(unsorted) |-> <<external_dep_count(unsorted[k])>>])

\* rebuild_name_to_module; build_components' own map is the same map
rebuild_name_to_module(cs) ==
  LET owned == UNION {Range(ItemNames(cs[i].items)) : i \in 1..Len(cs)}
      last(n) == CHOOSE i \in 1..Len(cs) :
                   /\ n \in Range(ItemNames(cs[i].items))
                   /\ \A j \in (i + 1)..Len(cs) : n \notin Range(ItemNames(cs[j].items))
  IN  [n \in owned |-> cs[last(n)].module_name]

(***************************************************************************)
(* repack_components                                                       *)
(***************************************************************************)
\* _item_lines summed: _comp_lines
comp_lines(c) == SumSeq([i \in 1..Len(c.items) |-> c.items[i].lines])

\* _assign_only
assign_only(c) == \A i \in 1..Len(c.items) : c.items[i].kind = "assign"

\* a merge that keeps the names of a only
merge_components_first_names(a, b) ==
  [names |-> a.names, items |-> a.items \o b.items,
   module_name |-> module_name_for_component(a.names)]

\* merge_components(a, b) with new_name left at None
merge_components(a, b) ==
  [names |-> a.names \o b.names, items |-> a.items \o b.items,
   module_name |-> module_name_for_component(a.names \o b.names)]

RECURSIVE MergeInto(_, _)
\* merged = cs[0]; for c in cs[1:]: merged = merge_components(merged, c)
MergeInto(merged, rest) ==
  IF rest = <<>> THEN merged ELSE MergeInto(merge_components(merged, Head(rest)), Tail(rest))

Without(cs, removed) == SelectSeq(cs, LAMBDA c : c \notin removed)

\* step 1, lines 480-487
group_assignments_step(cs, enabled) ==
  LET assign_comps == SelectSeq(cs, assign_only)
  IN  IF enabled /\ Len(assign_comps) > 1
        THEN Append(Without(cs, Range(assign_comps)),
                    [MergeInto(assign_comps[1], Tail(assign_comps))
                       EXCEPT !.module_name = StrConstants])
        ELSE cs

\* step 2 without the test for assign-only components
pack_small_step_any_kind(cs, pack_small_lines) ==
  LET small == SelectSeq(cs, LAMBDA c : comp_lines(c) < pack_small_lines)
  IN  IF pack_small_lines > 0 /\ Len(small) > 1
        THEN Append(Without(cs, Range(small)),
                    [MergeInto(small[1], Tail(small)) EXCEPT !.module_name = StrCore])
        ELSE cs

\* step 2, lines 490-497
pack_small_step(cs, pack_small_lines) ==
  LET small == SelectSeq(cs, LAMBDA c : comp_lines(c) < pack_small_lines /\ ~assign_only(c))
  IN  IF pack_small_lines > 0 /\ Len(small) > 1
        THEN Append(Without(cs, Range(small)),
                    [MergeInto(small[1], Tail(small)) EXCEPT !.module_name = StrCore])
        ELSE cs

\* pinned = {"constants", "core"}
pinned == {StrConstants, StrCore}

\* key=_comp_lines, for each element of a list of components
LineKeys(cs) == [i \in 1..Len(cs) |-> <<comp_lines(cs[i])>>]

\* cs.sort(key=_comp_lines)
SortByLines(cs) == StableSort(cs, LineKeys(cs))

\* movable = [c for c in comps if c.module_name not in pinned], sorted by _comp_lines
movable(cs) == SortByLines(SelectSeq(cs, LAMBDA c : c.module_name \notin pinned))

\* a merge that leaves the first of the two merged components in the list
merge_smallest_once_keeps_first(cs) ==
  LET m == movable(cs)
  IN  Append(Without(cs, {m[2]}), merge_components(m[1], m[2]))

\* merge_smallest_once, lines 500-509: the new list when it returns True
merge_smallest_once(cs) ==
  LET m == movable(cs)
  IN  Append(Without(cs, {m[1], m[2]}), merge_components(m[1], m[2]))

\* merge_smallest_once returns True
can_merge(cs) == Len(movable(cs)) >= 2

\* smallers of step 3.5, line 522-523
smallers(cs, min_module_lines) ==
  SortByLines(SelectSeq(cs, LAMBDA c : comp_lines(c) < min_module_lines
                                       /\ c.module_name \notin pinned))

\* others of step 3.5 for the candidate s, lines 526-529
others(cs, s) ==
  SortByLines(SelectSeq(cs, LAMBDA c : c # s /\ c.module_name \notin pinned))

\* one pass of the while loop of step 3.5 merges (changed = True)
min_lines_can_merge(cs, min_module_lines) ==
  /\ min_module_lines > 0
  /\ smallers(cs, min_module_lines) # <<>>
  /\ others(cs, smallers(cs, min_module_lines)[1]) # <<>>

\* lines 530-531
min_lines_merge(cs, min_module_lines) ==
  LET s == smallers(cs, min_module_lines)[1]
      o == others(cs, s)[1]
  IN  Append(Without(cs, {s, o}), merge_components(s, o))

RECURSIVE limit_loop(_, _)
\* step 3, lines 512-514, from the first test of the loop to its end
limit_loop(cs, max_modules) ==
  IF max_modules # 0 /\ Len(cs) > max_modules /\ can_merge(cs)
    THEN limit_loop(merge_smallest_once(cs), max_modules)
    ELSE cs

RECURSIVE min_lines_loop(_, _)
\* step 3.5, lines 517-533
min_lines_loop(cs, min_module_lines) ==
  IF min_lines_can_merge(cs, min_module_lines)
    THEN min_lines_loop(min_lines_merge(cs, min_module_lines), min_module_lines)
    ELSE cs

RECURSIVE target_loop(_, _)
\* step 4, lines 536-539
target_loop(cs, target_modules) ==
  IF target_modules # None /\ ValueOf(target_modules) > 0
       /\ Len(cs) > ValueOf(target_modules) /\ can_merge(cs)
    THEN target_loop(merge_smallest_once(cs), target_modules)
    ELSE cs

\* repack_components as a whole: the component list it returns for the list
\* cs and the options c
repack_components(cs, c) ==
  target_loop(
    min_lines_loop(
      limit_loop(
        pack_small_step(group_assignments_step(cs, c.group_assignments),
                        c.pack_small_lines),
        c.max_modules),
      c.min_module_lines),
    c.target_modules)

(***************************************************************************)
(* plan_and_write_single: collision guard and renderers                    *)
(***************************************************************************)
RECURSIVE UniqueLoop(_, _, _)
\* lines 751-753: for comp in components: comp.module_name = ensure_unique_module_name(...)
UniqueLoop(cs, used, done) ==
  IF cs = <<>> THEN done
  ELSE LET nm == ensure_unique_module_name(Head(cs).module_name, used)
       IN  UniqueLoop(Tail(cs), used \cup {nm},
                      Append(done, [Head(cs) EXCEPT !.module_name = nm]))

unique_module_names(cs) == UniqueLoop(cs, {}, <<>>)

RECURSIVE DedupLoop(_, _, _)
\* lines 554-558: the loop over the import lines; key = line.strip()
DedupLoop(imports, seen, out) ==
  IF imports = <<>> THEN out
  ELSE IF Strip(Head(imports), Whitespace) # <<>> /\ Strip(Head(imports), Whitespace) \notin seen
    THEN DedupLoop(Tail(imports), seen \cup {Strip(Head(imports), Whitespace)},
                   Append(out, Strip(Head(imports), Whitespace)))
    ELSE DedupLoop(Tail(imports), seen, out)

\* a loop that lets the last occurrence of a line decide its place
dedup_imports_last_wins(imports) ==
  LET last == SelectSeq([i \in 1..Len(imports) |-> i],
                LAMBDA i : \A j \in (i + 1)..Len(imports) : imports[j] # imports[i])
  IN  [k \in 1..Len(last) |-> imports[last[k]]]

\* _dedup_imports
dedup_imports(imports) == DedupLoop(imports, {}, <<>>)

\* sorted(set(...)) of strings
SortedSet(S) ==
  [r \in 1..Cardinality(S) |-> CHOOSE x \in S : Cardinality({y \in S : StrLess(y, x)}) = r - 1]

\* render_module: the same-package imports as (module, symbol) pairs, the source
\* segments in emission order (by node), and __all__
render_module(c, n2m) ==
  LET own == Range(c.names)
      deps == UNION {c.items[i].deps : i \in 1..Len(c.items)}
  IN  [module_name |-> c.module_name,
       imports |-> {<<n2m[d], d>> : d \in {x \in deps \ own : x \in DOMAIN n2m}},
       sources |-> AsList([i \in 1..Len(c.items) |-> c.items[i].node]),
       all     |-> c.names]

\* render_init: one re-export line per component and the sorted __all__
render_init(cs) ==
  LET lines == SelectSeq(cs, LAMBDA c : c.names # <<>>)
  IN  [imports |-> [i \in 1..Len(lines) |->
                      [module_name |-> lines[i].module_name, names |-> lines[i].names]],
       all |-> SortedSet(UNION {Range(lines[i].names) : i \in 1..Len(lines)})]

\* render_main(init_reexport=True, main_body)
render_main == [init_reexport |-> TRUE]

NoArtifacts == [modules |-> <<>>, init |-> None, main |-> None]

(***************************************************************************)
(* Inputs.  Families of sources, each of at most MaxItems statements:      *)
(*   GraphSources  distinct one-letter names, statements of the given      *)
(*                 shapes, every reference graph of at most MaxEdges edges *)
(*   ClashSources  names whose module names collide with each other or     *)
(*                 with the reserved names constants / core                *)
(*   DupSources    compound assignments and names bound more than once     *)
(* and the packing options each family is run with.  dry_run is off and    *)
(* the package directory may be written.                                   *)
(***************************************************************************)
MaxItems == 3
MaxEdges == 2

\* names of the statements of GraphSources, by position
SymNames == << <<"b">>, <<"a">>, <<"c">>, <<"d">>, <<"e">> >>

\* kind and line count of a statement; 40 is the default of --pack-small-lines
Callables == {[kind |-> "func", lines |-> 1], [kind |-> "class", lines |-> 40]}
FuncOrAssign == {[kind |-> "func", lines |-> 1], [kind |-> "assign", lines |-> 1]}

EdgeCount(uses) == SumSeq([i \in 1..Len(uses) |-> Cardinality(uses[i])])

\* reference graphs over the first n names: no self reference, at most maxEdges edges
Graphs(n, maxEdges) ==
  {u \in [1..n -> SUBSET {SymNames[i] : i \in 1..n}] :
     /\ \A i \in 1..n : SymNames[i] \notin u[i]
     /\ EdgeCount(u) <= maxEdges}

GraphSources(shapes, maxEdges) ==
  UNION {
    {[i \in 1..n |-> [kind |-> shape[i].kind, targets |-> <<SymNames[i]>>,
                      lines |-> shape[i].lines, used |-> uses[i]]] :
       shape \in [1..n -> shapes], uses \in Graphs(n, maxEdges)}
    : n \in 0..MaxItems}

\* name, kind and line count of the statements of ClashSources, in source order
ClashPool ==
  << [name |-> <<"f", "_", "2">>, kind |-> "func", lines |-> 1],
     [name |-> <<"f">>, kind |-> "func", lines |-> 1],
     [name |-> <<"F">>, kind |-> "class", lines |-> 1],
     [name |-> <<"F", "_", "2">>, kind |-> "class", lines |-> 1],
     [name |-> StrCore, kind |-> "func", lines |-> 40],
     [name |-> StrConstants, kind |-> "func", lines |-> 40],
     [name |-> <<"X">>, kind |-> "assign", lines |-> 1],
     [name |-> <<"Y">>, kind |-> "assign", lines |-> 1] >>

\* strictly increasing index sequences of length n into 1..m
Increasing(m, n) == {q \in [1..n -> 1..m] : \A i \in 1..(n - 1) : q[i] < q[i + 1]}

\* the last statement may read the names of earlier ones
ClashSources ==
  UNION {
    {[i \in 1..n |->
        [kind |-> ClashPool[pick[i]].kind, targets |-> <<ClashPool[pick[i]].name>>,
         lines |-> ClashPool[pick[i]].lines,
         used |-> IF i = n THEN {ClashPool[pick[j]].name : j \in lastUses} ELSE {}]] :
       pick \in Increasing(Len(ClashPool), n),
       lastUses \in SUBSET (1..(n - 1))}
    : n \in 1..MaxItems}

\* statements of DupSources:  a = b = 1,  a = 2,  def a(): ...,  def b(): a()
DupStmts ==
  {[kind |-> "assign", targets |-> << <<"a">>, <<"b">> >>, lines |-> 1, used |-> {}],
   [kind |-> "assign", targets |-> << <<"a">> >>, lines |-> 1, used |-> {}],
   [kind |-> "func", targets |-> << <<"a">> >>, lines |-> 1, used |-> {}],
   [kind |-> "func", targets |-> << <<"b">> >>, lines |-> 40, used |-> { <<"a">> }]}

DupSources == UNION {[1..n -> DupStmts] : n \in 1..MaxItems}

\* the packing options: CLI defaults are group_assignments, 40, 12, 0, None
DefaultCfg ==
  [group_assignments |-> TRUE, pack_small_lines |-> 40, max_modules |-> 12,
   min_module_lines |-> 0, target_modules |-> None]

\* max_modules, min_module_lines, target_modules: none and each alone
EachLoop ==
  {[max_modules |-> 12, min_module_lines |-> 0, target_modules |-> None],
   [max_modules |-> 2, min_module_lines |-> 0, target_modules |-> None],
   [max_modules |-> 12, min_module_lines |-> 41, target_modules |-> None],
   [max_modules |-> 12, min_module_lines |-> 0, target_modules |-> Some(1)]}

\* ... and a second target and all three together
LoopOptions ==
  {[max_modules |-> 12, min_module_lines |-> 0, target_modules |-> None],
   [max_modules |-> 2, min_module_lines |-> 0, target_modules |-> None],
   [max_modules |-> 12, min_module_lines |-> 41, target_modules |-> None],
   [max_modules |-> 12, min_module_lines |-> 0, target_modules |-> Some(1)],
   [max_modules |-> 12, min_module_lines |-> 0, target_modules |-> Some(2)],
   [max_modules |-> 2, min_module_lines |-> 41, target_modules |-> Some(1)]}

Cfgs(groupings, packings, loops) ==
  {[group_assignments |-> g, pack_small_lines |-> p, max_modules |-> l.max_modules,
    min_module_lines |-> l.min_module_lines, target_modules |-> l.target_modules] :
     g \in groupings, p \in packings, l \in loops}

NoLoops == {[max_modules |-> 12, min_module_lines |-> 0, target_modules |-> None]}

TargetOne == {[max_modules |-> 12, min_module_lines |-> 0, target_modules |-> Some(1)]}

\* nothing has been handed to the functions that are run on their own
SnakeIdle == snake_in = <<>> /\ snake_out = <<>>

ImportsIdle == all_imports = None /\ import_lines = None

SccIdle == scc_graph = None /\ scc_components = None

VisitIdle == visit_node = None /\ visit_used = None

Init ==
  /\ \/ /\ stmts \in GraphSources(Callables, MaxEdges)
        /\ cfg \in Cfgs({TRUE}, {0}, EachLoop)
        /\ main_block = FALSE
     \/ /\ stmts \in GraphSources(Callables, 0)
        /\ cfg \in Cfgs({TRUE}, {0, 40}, LoopOptions)
        /\ main_block = FALSE
     \/ /\ stmts \in GraphSources(FuncOrAssign, MaxEdges)
        /\ cfg \in Cfgs({TRUE}, {0, 40}, NoLoops) \cup Cfgs({FALSE}, {40}, NoLoops)
        /\ main_block = FALSE
     \/ /\ stmts \in ClashSources
        /\ cfg \in Cfgs({TRUE}, {0, 40}, EachLoop \cup TargetOne)
        /\ main_block = FALSE
     \/ /\ stmts \in DupSources
        /\ cfg \in Cfgs(BOOLEAN, {40}, NoLoops)
        /\ main_block \in BOOLEAN
     \/ /\ stmts = <<>>
        /\ cfg = DefaultCfg
        /\ main_block = TRUE
  /\ pc = "start"
  /\ items = <<>>
  /\ comps = <<>>
  /\ name_to_module = <<>>
  /\ written = NoArtifacts
  /\ merges = 0
  /\ SnakeIdle
  /\ ImportsIdle
  /\ SccIdle
  /\ VisitIdle

(***************************************************************************)
(* Actions of plan_and_write_single                                        *)
(***************************************************************************)
\* line 691
Extract ==
  /\ pc = "start"
  /\ items' = extract_top_level_items
  /\ pc' = "extracted"
  /\ UNCHANGED <<stmts, main_block, cfg, comps, name_to_module, written, merges,
                 pureVars>>

\* a check that never finds the list empty
NoItems_never == FALSE

\* line 692: if not items
NoItems == items = <<>>

\* lines 692-695: return False before anything is named, packed or rendered
NothingToSplit ==
  /\ pc = "extracted"
  /\ NoItems
  /\ pc' = "skipped"
  /\ UNCHANGED <<stmts, main_block, cfg, items, comps, name_to_module, written, merges,
                 pureVars>>

RECURSIVE AdjOrders(_, _)
\* the iteration orders of the dependency sets that the SCC pass may see:
\* every function from the keys to an order of graph[key]
AdjOrders(its, keys) ==
  IF keys = <<>> THEN {<<>>}
  ELSE {(Head(keys) :> o) @@ rest :
          o \in Orders(graph(its, Head(keys))), rest \in AdjOrders(its, Tail(keys))}

\* line 697
BuildComponents ==
  /\ pc = "extracted"
  /\ ~NoItems
  /\ \E adj \in AdjOrders(items, DictKeys(items)) :
       /\ comps' = build_components(items, adj)
       /\ name_to_module' = rebuild_name_to_module(comps')
  /\ pc' = "group"
  /\ UNCHANGED <<stmts, main_block, cfg, items, written, merges, pureVars>>

\* repack_components, step 1
GroupAssignments ==
  /\ pc = "group"
  /\ comps' = group_assignments_step(comps, cfg.group_assignments)
  /\ pc' = "pack"
  /\ UNCHANGED <<stmts, main_block, cfg, items, name_to_module, written, merges,
                 pureVars>>

\* repack_components, step 2
PackSmall ==
  /\ pc = "pack"
  /\ comps' = pack_small_step(comps, cfg.pack_small_lines)
  /\ pc' = "limit"
  /\ UNCHANGED <<stmts, main_block, cfg, items, name_to_module, written, merges,
                 pureVars>>

\* line 512: while max_modules and len(comps) > max_modules
over_limit == cfg.max_modules # 0 /\ Len(comps) > cfg.max_modules

\* repack_components, step 3: one iteration that merges
LimitMerge ==
  /\ pc = "limit"
  /\ over_limit
  /\ can_merge(comps)
  /\ comps' = merge_smallest_once(comps)
  /\ merges' = merges + 1
  /\ UNCHANGED <<stmts, main_block, cfg, pc, items, name_to_module, written,
                 pureVars>>

\* step 3: the loop condition fails or merge_smallest_once returns False (break)
LimitExit ==
  /\ pc = "limit"
  /\ ~(over_limit /\ can_merge(comps))
  /\ pc' = "minlines"
  /\ UNCHANGED <<stmts, main_block, cfg, items, comps, name_to_module, written, merges,
                 pureVars>>

\* repack_components, step 3.5: one pass of the while loop that merges
MinLinesMerge ==
  /\ pc = "minlines"
  /\ min_lines_can_merge(comps, cfg.min_module_lines)
  /\ comps' = min_lines_merge(comps, cfg.min_module_lines)
  /\ merges' = merges + 1
  /\ UNCHANGED <<stmts, main_block, cfg, pc, items, name_to_module, written,
                 pureVars>>

\* step 3.5 is off, or a pass ends with changed = False
MinLinesExit ==
  /\ pc = "minlines"
  /\ ~min_lines_can_merge(comps, cfg.min_module_lines)
  /\ pc' = "target"
  /\ UNCHANGED <<stmts, main_block, cfg, items, comps, name_to_module, written, merges,
                 pureVars>>

\* a loop condition that still holds at the target
over_target_at_target ==
  /\ cfg.target_modules # None
  /\ ValueOf(cfg.target_modules) > 0
  /\ Len(comps) >= ValueOf(cfg.target_modules)

\* lines 536-537: target_modules is not None and > 0, and len(comps) > target_modules
over_target ==
  /\ cfg.target_modules # None
  /\ ValueOf(cfg.target_modules) > 0
  /\ Len(comps) > ValueOf(cfg.target_modules)

\* repack_components, step 4: one iteration that merges
TargetMerge ==
  /\ pc = "target"
  /\ over_target
  /\ can_merge(comps)
  /\ comps' = merge_smallest_once(comps)
  /\ merges' = merges + 1
  /\ UNCHANGED <<stmts, main_block, cfg, pc, items, name_to_module, written,
                 pureVars>>

\* lines 541-543: the loop of step 4 is over; rebuild the map and return
RepackReturn ==
  /\ pc = "target"
  /\ ~(over_target /\ can_merge(comps))
  /\ name_to_module' = rebuild_name_to_module(comps)
  /\ pc' = "repacked"
  /\ UNCHANGED <<stmts, main_block, cfg, items, comps, written, merges,
                 pureVars>>

\* lines 750-753: the collision guard; name_to_module is not touched
UniqueModuleNames ==
  /\ pc = "repacked"
  /\ comps' = unique_module_names(comps)
  /\ pc' = "guarded"
  /\ UNCHANGED <<stmts, main_block, cfg, items, name_to_module, written, merges,
                 pureVars>>

\* lines 755-772: write the modules, __init__.py and, if present, __main__.py
WritePackage ==
  /\ pc = "guarded"
  /\ written' = [modules |-> [i \in 1..Len(comps) |-> render_module(comps[i], name_to_module)],
                 init    |-> Some(render_init(comps)),
                 main    |-> IF main_block THEN Some(render_main) ELSE None]
  /\ pc' = "done"
  /\ UNCHANGED <<stmts, main_block, cfg, items, comps, name_to_module, merges,
                 pureVars>>

Next ==
  \/ Extract
  \/ NothingToSplit
  \/ BuildComponents
  \/ GroupAssignments
  \/ PackSmall
  \/ LimitMerge
  \/ LimitExit
  \/ MinLinesMerge
  \/ MinLinesExit
  \/ TargetMerge
  \/ RepackReturn
  \/ UniqueModuleNames
  \/ WritePackage

Spec == Init /\ [][Next]_vars

(***************************************************************************)
(* to_snake on its own: snake_in is the argument, snake_out the results of *)
(* applying to_snake once and then once more to the result.                *)
(***************************************************************************)
MaxLen == 3

\* letters of both cases, a digit, and the separators to_snake treats apart
SnakeAlphabet == {"i", "s", "S", "1", "_", "-", " ", "."}

SnakeInputs == UNION {[1..n -> SnakeAlphabet] : n \in 0..MaxLen}

InitSnake ==
  /\ snake_in \in SnakeInputs
  /\ snake_out = <<>>
  /\ stmts = <<>>
  /\ main_block = FALSE
  /\ cfg = DefaultCfg
  /\ pc = "start"
  /\ items = <<>>
  /\ comps = <<>>
  /\ name_to_module = <<>>
  /\ written = NoArtifacts
  /\ merges = 0
  /\ ImportsIdle
  /\ SccIdle
  /\ VisitIdle

\* to_snake(s)
Normalize ==
  /\ snake_out = <<>>
  /\ snake_out' = <<to_snake(snake_in)>>
  /\ UNCHANGED <<pipeVars, snake_in, importVars, sccVars, visitVars>>

\* to_snake(to_snake(s))
Renormalize ==
  /\ Len(snake_out) = 1
  /\ snake_out' = Append(snake_out, to_snake(snake_out[1]))
  /\ UNCHANGED <<pipeVars, snake_in, importVars, sccVars, visitVars>>

NextSnake ==
  \/ Normalize
  \/ Renormalize

SpecSnake == InitSnake /\ [][NextSnake]_vars

\* plan_and_write_single has not been called
PipelineIdle ==
  /\ stmts = <<>>
  /\ main_block = FALSE
  /\ cfg = DefaultCfg
  /\ pc = "start"
  /\ items = <<>>
  /\ comps = <<>>
  /\ name_to_module = <<>>
  /\ written = NoArtifacts
  /\ merges = 0

(***************************************************************************)
(* The import block of a rendered module: all_imports is the list that     *)
(* extract_top_level_items collects at line 298, one text per import       *)
(* statement of the source, repeats included; import_lines is dedup_imps   *)
(* as render_module puts it under the header (lines 577-580).              *)
(***************************************************************************)
MaxImports == 3

\* source segments of import statements: a statement starts and ends with a
\* character that is not white space; the last one spans two lines
ImportTexts ==
  { <<"i", "m", "p", "o", "r", "t", " ", "a">>,
    <<"i", "m", "p", "o", "r", "t", " ", "b">>,
    <<"i", "m", "p", "o", "r", "t", " ", " ", "a">>,
    <<"f", "r", "o", "m", " ", "a", " ", "i", "m", "p", "o", "r", "t", " ", "(", "\n",
      " ", "b", ")">> }

\* line 298: get_source_segment(source, node).rstrip() for every import
ImportLists ==
  UNION {{[i \in 1..n |-> RStrip(segs[i], Whitespace)] : segs \in [1..n -> ImportTexts]}
           : n \in 0..MaxImports}

InitImports ==
  /\ all_imports \in {Some(l) : l \in ImportLists}
  /\ import_lines = None
  /\ PipelineIdle
  /\ SnakeIdle
  /\ SccIdle
  /\ VisitIdle

\* render_module, line 577
RenderImports ==
  /\ import_lines = None
  /\ import_lines' = Some(dedup_imports(ValueOf(all_imports)))
  /\ UNCHANGED <<pipeVars, snakeVars, all_imports, sccVars, visitVars>>

NextImports ==
  \/ RenderImports

SpecImports == InitImports /\ [][NextImports]_vars

(***************************************************************************)
(* strongly_connected_components on its own: scc_graph is the argument, a  *)
(* dict from each of the first n names to a set of them.  The graph of     *)
(* build_components has every symbol as a key, only keys in the sets, and  *)
(* no symbol in its own set (lines 324-329, 395).                          *)
(***************************************************************************)
MaxNodes == 3

Nodes(n) == {SymNames[i] : i \in 1..n}

SccGraphs == UNION {{g \in [Nodes(n) -> SUBSET Nodes(n)] : \A v \in Nodes(n) : v \notin g[v]}
                      : n \in 0..MaxNodes}

\* the keys of the dict in insertion order
GraphKeys(g) == SelectSeq(SymNames, LAMBDA v : v \in DOMAIN g)

RECURSIVE IterationOrders(_, _)
\* every way the sets of the graph can be iterated: a function from the keys
\* to an order of the set of each
IterationOrders(g, keys) ==
  IF keys = <<>> THEN {<<>>}
  ELSE {(Head(keys) :> o) @@ rest :
          o \in Orders(g[Head(keys)]), rest \in IterationOrders(g, Tail(keys))}

InitScc ==
  /\ scc_graph \in {Some(g) : g \in SccGraphs}
  /\ scc_components = None
  /\ PipelineIdle
  /\ SnakeIdle
  /\ ImportsIdle
  /\ VisitIdle

\* one call of strongly_connected_components(graph)
RunScc ==
  /\ scc_components = None
  /\ \E adj \in IterationOrders(ValueOf(scc_graph), GraphKeys(ValueOf(scc_graph))) :
       scc_components' =
         Some(strongly_connected_components(GraphKeys(ValueOf(scc_graph)), adj))
  /\ UNCHANGED <<pipeVars, snakeVars, importVars, scc_graph, visitVars>>

NextScc ==
  \/ RunScc

SpecScc == InitScc /\ [][NextScc]_vars

(***************************************************************************)
(* DependencyVisitor on its own.  A syntax node is                         *)
(*   [kind, reads, body]                                                   *)
(* kind   "func" (FunctionDef / AsyncFunctionDef), "class", "lambda", or   *)
(*        "other" for every node class the visitor has no method for       *)
(* reads  for each place of the node that holds expressions, the names in  *)
(*        Load context there                                               *)
(* body   the statements of a def or class, nodes again                    *)
(* visit_node is the node of one item with the item's name, visit_used     *)
(* the deps that extract_top_level_items stores for it.                    *)
(***************************************************************************)
MaxDepth == 1

\* the item is named f; X is another top-level symbol
ItemName == <<"f">>

OtherName == <<"X">>

\* name_set of line 324
name_set == {ItemName, OtherName}

\* the places of a node of each kind where an expression can stand
Places(kind) ==
  CASE kind = "func" -> {"decorators", "returns", "annotations", "defaults"}
    [] kind = "class" -> {"bases", "keywords", "decorators"}
    [] kind = "lambda" -> {"defaults", "value"}
    [] OTHER -> {"value"}

\* the places the visitor goes to: visit_FunctionDef (lines 249-256),
\* visit_ClassDef (260-268), generic_visit for the rest
VisitedPlaces(kind) ==
  CASE kind = "func" -> {"decorators", "returns", "annotations"}
    [] kind = "class" -> {"bases", "keywords", "decorators"}
    [] kind = "lambda" -> {"defaults", "value"}
    [] OTHER -> {"value"}

RECURSIVE visit(_)
\* the names DependencyVisitor.visit(node) adds to used: visit_Name keeps the
\* names of top_level_names, the body is visited statement by statement
visit(node) ==
  UNION {node.reads[p] \cap name_set : p \in VisitedPlaces(node.kind)}
    \cup UNION {visit(node.body[i]) : i \in 1..Len(node.body)}

\* lines 326-329: the deps of the item
deps_of(name, node) == visit(node) \ {name}

\* nodes without statements inside: a statement or expression that reads X,
\* f or nothing, and a lambda
Leaves ==
  {[kind |-> "other", reads |-> [value |-> r], body |-> <<>>] :
     r \in {{}, {OtherName}, {ItemName}}}
  \cup {[kind |-> "lambda", reads |-> [defaults |-> d, value |-> r], body |-> <<>>] :
          d, r \in {{}, {OtherName}}}

\* defs and classes whose body is empty or one node of the given set
Compounds(inner) ==
  {[kind |-> "func",
    reads |-> [decorators |-> r[1], returns |-> r[2], annotations |-> r[3],
               defaults |-> r[4]],
    body |-> b] : r \in [1..4 -> {{}, {OtherName}}], b \in {<<>>} \cup {<<n>> : n \in inner}}
  \cup
  {[kind |-> "class",
    reads |-> [bases |-> r[1], keywords |-> r[2], decorators |-> r[3]],
    body |-> b] : r \in [1..3 -> {{}, {OtherName}}], b \in {<<>>} \cup {<<n>> : n \in inner}}

RECURSIVE NodesOfDepth(_)
\* the nodes with at most d levels of def or class around a leaf
NodesOfDepth(d) ==
  IF d = 0 THEN Leaves ELSE Leaves \cup Compounds(NodesOfDepth(d - 1))

InitVisit ==
  /\ visit_node \in {Some(n) : n \in NodesOfDepth(MaxDepth)}
  /\ visit_used = None
  /\ PipelineIdle
  /\ SnakeIdle
  /\ ImportsIdle
  /\ SccIdle

\* lines 325-329 for the item
VisitItem ==
  /\ visit_used = None
  /\ visit_used' = Some(deps_of(ItemName, ValueOf(visit_node)))
  /\ UNCHANGED <<pipeVars, snakeVars, importVars, sccVars, visit_node>>

NextVisit ==
  \/ VisitItem

SpecVisit == InitVisit /\ [][NextVisit]_vars


(***************************************************************************)
(* What the source text says, read off the statements themselves.          *)
(***************************************************************************)
\* the top-level symbol names of the source
TopNames == UNION {Range(stmts[k].targets) : k \in 1..Len(stmts)}

\* the statement that binds n last
LastBinding(n) ==
  CHOOSE k \in 1..Len(stmts) :
    /\ n \in Range(stmts[k].targets)
    /\ \A j \in (k + 1)..Len(stmts) : n \notin Range(stmts[j].targets)

\* the top-level symbols the binding of n refers to
DependsOn(n) == (stmts[LastBinding(n)].used \cap TopNames) \ {n}

RECURSIVE Closure(_)
\* the symbols reachable from the set S along DependsOn, S included
Closure(S) ==
  IF UNION {DependsOn(n) : n \in S} \subseteq S THEN S
  ELSE Closure(S \cup UNION {DependsOn(n) : n \in S})

\* a transitively depends on b
TransDepends(a, b) == b \in Closure(DependsOn(a))

MutuallyDependent(a, b) == a # b /\ TransDepends(a, b) /\ TransDepends(b, a)

\* the positions of the components that list n among their names
Owners(n) == {i \in 1..Len(comps) : n \in Range(comps[i].names)}

\* every dependency of an item of component c
ItemDeps(c) == UNION {c.items[i].deps : i \in 1..Len(c.items)}

(***************************************************************************)
(* C1                                                                      *)
(***************************************************************************)
\* C1: in the list returned by repack_components, two symbols that
\* transitively depend on each other are owned by one and the same component,
\* whatever the dependency graph and the packing configuration.
C1_CyclesStayTogether ==
  pc = "repacked" =>
    \A a, b \in TopNames :
      MutuallyDependent(a, b) => \E i \in 1..Len(comps) : {a, b} \subseteq Range(comps[i].names)

\* a source with a reference cycle was repacked under a module-count ceiling
\* and still has more than one component
C1_Witness ==
  /\ pc = "repacked"
  /\ cfg.max_modules = 2
  /\ Len(comps) >= 2
  /\ \E a, b \in TopNames : MutuallyDependent(a, b)

(***************************************************************************)
(* C2                                                                      *)
(***************************************************************************)
\* module i imports from module j: an item of i depends on a symbol j owns
ImportEdge(i, j) == i # j /\ ItemDeps(comps[i]) \cap Range(comps[j].names) # {}

RECURSIVE ImportClosure(_)
\* the modules reachable from the set S along ImportEdge, S included
ImportClosure(S) ==
  IF {j \in 1..Len(comps) : \E i \in S : ImportEdge(i, j)} \subseteq S THEN S
  ELSE ImportClosure(S \cup {j \in 1..Len(comps) : \E i \in S : ImportEdge(i, j)})

\* C2: the import graph among the final modules is acyclic after
\* repack_components, for every dependency graph and packing configuration.
C2_ImportGraphAcyclic ==
  pc = "repacked" =>
    \A i \in 1..Len(comps) :
      i \notin ImportClosure({j \in 1..Len(comps) : ImportEdge(i, j)})

(***************************************************************************)
(* C3                                                                      *)
(***************************************************************************)
\* a list without repeated elements
NoRepeats(seq) == Len(seq) = Cardinality(Range(seq))

\* C3: for a source with at least one item, every top-level symbol is in the
\* names of exactly one final component, no component lists a name twice or
\* a name that is not a top-level symbol, and the export list of __init__.py
\* is exactly the symbol set.
C3_SymbolCoverage ==
  /\ pc \in {"repacked", "guarded", "done"} =>
       /\ \A n \in TopNames : Cardinality(Owners(n)) = 1
       /\ \A i \in 1..Len(comps) :
            Range(comps[i].names) \subseteq TopNames /\ NoRepeats(comps[i].names)
  /\ pc = "done" =>
       /\ Range(ValueOf(written.init).all) = TopNames
       /\ NoRepeats(ValueOf(written.init).all)

\* a package was written after a merging loop ran, from a source that binds
\* some name more than once
C3_Witness ==
  /\ pc = "done"
  /\ Len(comps) >= 2
  /\ \/ merges >= 1
     \/ \E k \in 1..Len(stmts) : \E n \in Range(stmts[k].targets) : LastBinding(n) # k

(***************************************************************************)
(* C4                                                                      *)
(***************************************************************************)
\* how many times the source span of statement k is written, over all modules
Emissions(k) ==
  SumSeq([m \in 1..Len(written.modules) |->
            Cardinality({p \in 1..Len(written.modules[m].sources) :
                           written.modules[m].sources[p] = k})])

\* C4: the source span of every top-level statement that yields an item is
\* emitted exactly once over all rendered modules, also for a compound
\* assignment and for a name bound by several statements.
C4_SpanEmittedOnce ==
  pc = "done" => \A k \in 1..Len(stmts) : Emissions(k) = 1

(***************************************************************************)
(* C5                                                                      *)
(***************************************************************************)
\* the module names, as they are when the files are written, of the
\* components that own d
OwnerModules(d) == {comps[j].module_name : j \in Owners(d)}

\* C5: every rendered module imports each dependency it does not own from
\* the module name its owner has after the collision guard, and no import
\* line names a module that does not own the imported symbol.
C5_ImportsNameOwner ==
  pc = "done" =>
    \A i \in 1..Len(comps) :
      /\ \A d \in ItemDeps(comps[i]) \ Range(comps[i].names) :
           \E m \in OwnerModules(d) : <<m, d>> \in written.modules[i].imports
      /\ \A imp \in written.modules[i].imports : imp[1] \in OwnerModules(imp[2])


(***************************************************************************)
(* C6                                                                      *)
(***************************************************************************)
\* the source is n callables with distinct names that refer to no other
IndependentCallables ==
  /\ stmts # <<>>
  /\ \A k \in 1..Len(stmts) :
       /\ stmts[k].kind \in {"func", "class"}
       /\ Len(stmts[k].targets) = 1
       /\ stmts[k].used = {}
  /\ Cardinality(TopNames) = Len(stmts)

\* target_modules = k and every other packing option at its default
TargetOnly(k) == cfg = [DefaultCfg EXCEPT !.target_modules = Some(k)]

\* the export list of __init__.py holds every top-level symbol
AllExported == pc = "done" => Range(ValueOf(written.init).all) = TopNames

\* C6 as stated: n independent callables and a target k, 1 <= k <= n, other
\* options at their defaults, give exactly k nonempty components, and the
\* export list of __init__.py holds all n names.
C6_ExactlyTarget ==
  \A k \in 1..Len(stmts) :
    IndependentCallables /\ TargetOnly(k) =>
      /\ pc = "repacked" =>
           Len(comps) = k /\ \A i \in 1..Len(comps) : comps[i].names # <<>>
      /\ AllExported

\* the callables step 2 packs into core: those shorter than the default
\* pack_small_lines, when there are at least two
PackedCallables ==
  LET short == {k \in 1..Len(stmts) : stmts[k].lines < DefaultCfg.pack_small_lines}
  IN  IF Cardinality(short) >= 2 THEN short ELSE {}

\* the number of components step 2 leaves
AfterPacking ==
  Len(stmts) - Cardinality(PackedCallables) + (IF PackedCallables = {} THEN 0 ELSE 1)

\* of these, the number named constants or core
ReservedAfterPacking ==
  Cardinality({k \in 1..Len(stmts) \ PackedCallables :
                 module_name_for_component(stmts[k].targets) \in pinned})
  + (IF PackedCallables = {} THEN 0 ELSE 1)

\* C6 amended: the result has exactly k components if and only if at least
\* k components are left after the short callables were packed into core and
\* either exactly k are left or fewer than k of them are named constants or
\* core; the components are nonempty and every name is exported in any case.
C6_TargetAfterPacking ==
  \A k \in 1..Len(stmts) :
    IndependentCallables /\ TargetOnly(k) =>
      /\ pc = "repacked" =>
           /\ Len(comps) = k <=>
                AfterPacking >= k /\ (AfterPacking = k \/ ReservedAfterPacking < k)
           /\ \A i \in 1..Len(comps) : comps[i].names # <<>>
      /\ AllExported

\* three independent callables, at most one of them short, were merged down
\* to a target of two
C6_Witness ==
  /\ pc = "repacked"
  /\ IndependentCallables
  /\ TargetOnly(2)
  /\ Len(stmts) >= 3
  /\ PackedCallables = {}
  /\ merges >= 1
  /\ Len(comps) = 2

(***************************************************************************)
(* C7                                                                      *)
(***************************************************************************)
KindOf(n) == stmts[LastBinding(n)].kind

\* the symbols of the initial component of n: n and all it is in a cycle with
SccOf(n) == {n} \cup {m \in TopNames : MutuallyDependent(n, m)}

\* the initial components that hold constant bindings only
AssignOnlySccs ==
  {SccOf(n) : n \in {x \in TopNames : \A m \in SccOf(x) : KindOf(m) = "assign"}}

\* C7: with constant grouping on and more than one assign-only initial
\* component, the final list has exactly one component named constants, and
\* it owns exactly the symbols of the assign-only components.
C7_OneConstantsModule ==
  pc = "repacked" /\ cfg.group_assignments /\ Cardinality(AssignOnlySccs) > 1 =>
    \E i \in 1..Len(comps) :
      /\ comps[i].module_name = StrConstants
      /\ Range(comps[i].names) = UNION AssignOnlySccs
      /\ \A j \in 1..Len(comps) : j # i => comps[j].module_name # StrConstants

(***************************************************************************)
(* C8                                                                      *)
(***************************************************************************)
\* the step of the collision guard
GuardStep == pc = "repacked" /\ pc' = "guarded"

\* the names the guard has given out before it reaches component i
EarlierFinal(i) == {comps'[j].module_name : j \in 1..(i - 1)}

Kept(i) == comps'[i].module_name = comps[i].module_name

\* component i gets base_k for the smallest k >= 2 that is not yet used
SmallestSuffix(i) ==
  \E k \in 2..(Len(comps) + 1) :
    /\ comps'[i].module_name = Suffixed(comps[i].module_name, k)
    /\ Suffixed(comps[i].module_name, k) \notin EarlierFinal(i)
    /\ \A m \in 2..(k - 1) : Suffixed(comps[i].module_name, m) \in EarlierFinal(i)

DistinctAfterGuard ==
  \A i, j \in 1..Len(comps') : i # j => comps'[i].module_name # comps'[j].module_name

\* C8 as stated: after the guard the module names are pairwise distinct, the
\* first component with a given name keeps it, and every later component
\* with that name gets base_k for the smallest unused k >= 2.
C8_FirstKeepsName ==
  [][GuardStep =>
       /\ DistinctAfterGuard
       /\ \A i \in 1..Len(comps) :
            IF \A j \in 1..(i - 1) : comps[j].module_name # comps[i].module_name
              THEN Kept(i) ELSE SmallestSuffix(i)]_vars

\* C8 amended: after the guard the module names are pairwise distinct; a
\* component keeps its name unless an earlier component already has it after
\* the guard (by its own name or by a suffix it was given), and otherwise
\* gets base_k for the smallest unused k >= 2.
C8_UntakenKeepsName ==
  [][GuardStep =>
       /\ DistinctAfterGuard
       /\ \A i \in 1..Len(comps) :
            IF comps[i].module_name \notin EarlierFinal(i)
              THEN Kept(i) ELSE SmallestSuffix(i)]_vars

\* the guard renamed a component: its module name is no longer the one the
\* symbol map of repack_components records
C8_Witness ==
  /\ pc = "guarded"
  /\ \E i \in 1..Len(comps) : comps[i].module_name # name_to_module[comps[i].names[1]]

(***************************************************************************)
(* C9                                                                      *)
(***************************************************************************)
\* C9: to_snake(to_snake(s)) = to_snake(s) for every string s, the empty
\* string, strings with a leading digit and keywords included.
C9_ToSnakeIdempotent == Len(snake_out) = 2 => snake_out[2] = snake_out[1]

\* both applications were made to a keyword, which the first one prefixed
C9_Witness ==
  /\ Len(snake_out) = 2
  /\ snake_in = <<"i", "s">>
  /\ snake_out[1] = <<"m", "o", "d", "_", "i", "s">>

(***************************************************************************)
(* C10                                                                     *)
(***************************************************************************)
\* C10: when extraction yields no item the run ends as nothing-to-split:
\* no component is built, no name assigned, and no module, __init__.py or
\* __main__.py is produced.
C10_NothingToSplit ==
  pc # "start" /\ items = <<>> =>
    /\ pc \in {"extracted", "skipped"}
    /\ comps = <<>>
    /\ name_to_module = <<>>
    /\ written = NoArtifacts

\* a source that holds only a main block ended as nothing-to-split
C10_Witness == pc = "skipped" /\ main_block /\ stmts = <<>>


(***************************************************************************)
(* C11                                                                     *)
(***************************************************************************)
\* the position of the first occurrence of x in seq
FirstIndex(seq, x) == CHOOSE i \in 1..Len(seq) : seq[i] = x /\ \A j \in 1..(i - 1) : seq[j] # x

\* C11: the import block of a rendered module holds every distinct import
\* text of the source exactly once, in the order of first occurrence,
\* however often a statement is repeated.
C11_ImportsOnceInOrder ==
  import_lines # None =>
    /\ NoRepeats(ValueOf(import_lines))
    /\ Range(ValueOf(import_lines)) = Range(ValueOf(all_imports))
    /\ \A i, j \in 1..Len(ValueOf(import_lines)) :
         i < j => FirstIndex(ValueOf(all_imports), ValueOf(import_lines)[i])
                    < FirstIndex(ValueOf(all_imports), ValueOf(import_lines)[j])

\* a source whose first import statement is repeated after another one
C11_Witness ==
  /\ import_lines # None
  /\ Len(ValueOf(all_imports)) >= 3
  /\ ValueOf(all_imports)[3] = ValueOf(all_imports)[1]
  /\ ValueOf(all_imports)[2] # ValueOf(all_imports)[1]
  /\ Len(ValueOf(import_lines)) = 2


(***************************************************************************)
(* C12                                                                     *)
(***************************************************************************)
RECURSIVE GraphClosure(_, _)
\* the nodes reachable in g from the set S, S included
GraphClosure(g, S) ==
  IF UNION {g[v] : v \in S} \subseteq S THEN S
  ELSE GraphClosure(g, S \cup UNION {g[v] : v \in S})

\* each of a and b is reachable from the other
MutuallyReachable(g, a, b) == b \in GraphClosure(g, {a}) /\ a \in GraphClosure(g, {b})

\* C12: strongly_connected_components returns a partition of the nodes in
\* which two nodes share a part if and only if each is reachable from the
\* other.
C12_SccPartition ==
  scc_components # None =>
    /\ Range(Flatten(ValueOf(scc_components))) = DOMAIN ValueOf(scc_graph)
    /\ NoRepeats(Flatten(ValueOf(scc_components)))
    /\ \A p \in 1..Len(ValueOf(scc_components)) : ValueOf(scc_components)[p] # <<>>
    /\ \A a, b \in DOMAIN ValueOf(scc_graph) :
         (\E p \in 1..Len(ValueOf(scc_components)) :
            {a, b} \subseteq Range(ValueOf(scc_components)[p]))
           <=> MutuallyReachable(ValueOf(scc_graph), a, b)

\* a graph of three nodes with a cycle of two and an edge from the third
\* node into the cycle was partitioned
C12_Witness ==
  /\ scc_components # None
  /\ Len(ValueOf(scc_components)) = 2
  /\ \E a, b, c \in DOMAIN ValueOf(scc_graph) :
       /\ a # b /\ c \notin {a, b}
       /\ MutuallyReachable(ValueOf(scc_graph), a, b)
       /\ a \in ValueOf(scc_graph)[c]
       /\ ~MutuallyReachable(ValueOf(scc_graph), a, c)


(***************************************************************************)
(* C13                                                                     *)
(***************************************************************************)
RECURSIVE AllReads(_)
\* every name read anywhere inside the node, at any depth
AllReads(node) ==
  UNION {node.reads[p] : p \in Places(node.kind)}
    \cup UNION {AllReads(node.body[i]) : i \in 1..Len(node.body)}

\* C13: the deps of an item hold every other top-level symbol that is read
\* anywhere inside its definition: body, decorators, base types,
\* annotations and parameter defaults, at any nesting depth.
C13_DepsCoverReads ==
  visit_used # None =>
    (AllReads(ValueOf(visit_node)) \cap name_set) \ {ItemName} \subseteq ValueOf(visit_used)

(***************************************************************************)
(* C14                                                                     *)
(***************************************************************************)
\* C14: every rendered module emits the sources of its items in the order
\* of their statements in the original file, also after merges.
C14_SourcesInFileOrder ==
  pc = "done" =>
    \A m \in 1..Len(written.modules) :
      \A p, q \in 1..Len(written.modules[m].sources) :
        p < q => written.modules[m].sources[p] <= written.modules[m].sources[q]

(***************************************************************************)
(* C15                                                                     *)
(***************************************************************************)
\* the symbols of the constants component that step 1 creates, none when
\* step 1 merges nothing
ConstantsMembers ==
  IF cfg.group_assignments /\ Cardinality(AssignOnlySccs) > 1 THEN UNION AssignOnlySccs ELSE {}

\* the positions of the components named core
NamedCore(cs) == {j \in 1..Len(cs) : cs[j].module_name = StrCore}

SmallCallable(cs, T) ==
  {i \in 1..Len(cs) : comp_lines(cs[i]) < T /\ \E k \in 1..Len(cs[i].items) : cs[i].items[k].kind # "assign"}

RECURSIVE TotalLines(_)
\* the source lines of the bindings of the symbols of S
TotalLines(S) ==
  IF S = {} THEN 0
  ELSE stmts[LastBinding(CHOOSE n \in S : TRUE)].lines
         + TotalLines(S \ {CHOOSE n \in S : TRUE})

\* the initial components that step 2 packs: not constant bindings only and
\* fewer lines than the threshold
SmallSccs ==
  {S \in {SccOf(n) : n \in TopNames} \ AssignOnlySccs : TotalLines(S) < cfg.pack_small_lines}

\* the symbols of the core component that step 2 creates, none when step 2
\* merges nothing
CoreMembers ==
  IF cfg.pack_small_lines > 0 /\ Cardinality(SmallSccs) > 1 THEN UNION SmallSccs ELSE {}

\* c is the constants component of step 1 or the core component of step 2
Reserved(c) == Range(c.names) \in {ConstantsMembers, CoreMembers} \ {{}}

\* the program is in one of the loops of steps 3, 3.5 and 4
InMergeLoops == pc \in {"limit", "minlines", "target"}

\* C16: in the steps after packing the components kept out of the merges
\* are exactly the constants component of step 1 and the core component of
\* step 2: every other component, whatever its module name, is a candidate
\* of merge_smallest_once and of step 3.5, and a step of these loops leaves a
\* reserved component in the list with its symbols unchanged.
C16_ReservedExactly ==
  [][InMergeLoops =>
       /\ \A i \in 1..Len(comps) :
            Reserved(comps[i]) <=> comps[i] \notin Range(movable(comps))
       /\ \A i \in 1..Len(comps) :
            Reserved(comps[i]) => \E j \in 1..Len(comps') : comps'[j].names = comps[i].names]_vars

(***************************************************************************)
(* C17                                                                     *)
(***************************************************************************)
\* the positions of the components of cs that neither step 1 nor step 2 created
NonReserved(cs) == {i \in 1..Len(cs) : ~Reserved(cs[i])}

\* the position in idx of the component with the fewest lines, the first of
\* the list among equals
Smallest(cs, idx) ==
  CHOOSE i \in idx :
    \A k \in idx :
      \/ comp_lines(cs[i]) < comp_lines(cs[k])
      \/ comp_lines(cs[i]) = comp_lines(cs[k]) /\ i <= k

\* the two smallest non-reserved components of cs, as positions
SmallestPair(cs) ==
  <<Smallest(cs, NonReserved(cs)),
    Smallest(cs, NonReserved(cs) \ {Smallest(cs, NonReserved(cs))})>>

\* next is cs with the components at positions p[1] and p[2] replaced by
\* their union, put last
MergedPair(cs, next, p) ==
  /\ Len(next) = Len(cs) - 1
  /\ next[Len(next)].names = cs[p[1]].names \o cs[p[2]].names
  /\ SubSeq(next, 1, Len(next) - 1) =
       SelectSeq(cs, LAMBDA c : c # cs[p[1]] /\ c # cs[p[2]])

\* C17: with a ceiling M > 0, repack_components returns with at most M
\* components or with fewer than two non-reserved ones, and every merge of
\* the ceiling loop merges the two non-reserved components with the fewest
\* lines, ties broken by list order.
C17_CeilingEnforced ==
  [][/\ pc = "repacked" /\ cfg.max_modules > 0 =>
          Len(comps) <= cfg.max_modules \/ Cardinality(NonReserved(comps)) < 2
     /\ pc = "limit" /\ pc' = "limit" =>
          /\ Cardinality(NonReserved(comps)) >= 2
          /\ MergedPair(comps, comps', SmallestPair(comps))]_vars

(***************************************************************************)
(* C18                                                                     *)
(***************************************************************************)
\* C18: with a minimum module size L > 0, when repack_components returns,
\* after the exact-target step, a non-reserved component with fewer than L
\* lines is the only non-reserved component left.
C18_FloorEnforced ==
  pc = "repacked" /\ cfg.min_module_lines > 0 =>
    \A i \in NonReserved(comps) :
      comp_lines(comps[i]) < cfg.min_module_lines => NonReserved(comps) = {i}

(***************************************************************************)
(* C19                                                                     *)
(***************************************************************************)
\* the number of components build_components hands to repack_components
InitialCount == Cardinality({SccOf(n) : n \in TopNames})

\* the loops of repack_components in the order they run, then the return
LoopRank ==
  CASE pc = "limit" -> 3
    [] pc = "minlines" -> 2
    [] pc = "target" -> 1
    [] OTHER -> 0

\* C19: repack_components returns for every component list and every
\* configuration.  An iteration of the ceiling, floor or target loop that
\* does not leave the loop performs one merge, which lowers the component
\* count by exactly one and leaves at least one component; a step that
\* leaves a loop, as with a ceiling, floor or target that cannot be
\* reached, goes on to the next loop or to the return with the list as it
\* is; and at most (initial component count - 1) merges happen.
C19_RepackTerminates ==
  [][/\ InMergeLoops =>
          \/ /\ pc' = pc
             /\ Len(comps') = Len(comps) - 1
             /\ Len(comps') >= 1
             /\ merges' = merges + 1
          \/ /\ LoopRank' < LoopRank
             /\ comps' = comps
             /\ merges' = merges
     /\ InMergeLoops \/ pc = "repacked" => merges <= InitialCount - 1]_vars

\* the target loop has ended on a target it cannot reach, after the loops
\* have merged at least once
C19_Witness ==
  /\ pc = "repacked"
  /\ merges >= 1
  /\ cfg.target_modules = Some(1)
  /\ Len(comps) > 1

(***************************************************************************)
(* C20                                                                     *)
(***************************************************************************)
\* C20: the component list repack_components returns is a function of the
\* items, their dependency sets and the packing options: whatever the order
\* in which the dependency set of a symbol is iterated during the SCC
\* computation, the run gives the same final components in the same order.
C20_OrderIndependent ==
  pc = "repacked" =>
    \A adj \in AdjOrders(items, DictKeys(items)) :
      repack_components(build_components(items, adj), cfg) = comps

=============================================================================
